---- MODULE Spec2Model ----
(***************************************************************************)
(* Match & Bloom: the match-3 engine hook (useMatch3Engine, the version   *)
(* with swipe input and level configs, src/src/hooks/useAmbientSound.ts   *)
(* lines 85-794) together with the persisted zustand store                *)
(* (src/App.tsx lines 974-1382) and the level catalogue                   *)
(* (src/unnamed/part_001).                                                *)
(*                                                                         *)
(* The hook's async functions run between awaits as atomic steps; the     *)
(* locals that live across an await are the fields of a task record.      *)
(* A handler is the useCallback of the last render in which one of its    *)
(* dependencies changed, and it calls the performSwap of that render.     *)
(***************************************************************************)
EXTENDS Integers, Sequences, FiniteSets, TLC

\* ------------------------------------------------------------------------
\* Grid constants and geometry (src/src/types/game.types.ts)
\* ------------------------------------------------------------------------
GRID_SIZE == 8

TOTAL_CELLS == GRID_SIZE * GRID_SIZE

MIN_MATCH == 3

ALL_ELEMENT_TYPES == <<"water", "sun", "leaf", "bloom">>

Indices == 0 .. (TOTAL_CELLS - 1)

Min(a, b) == IF a < b THEN a ELSE b

\* Math.max that returns its first argument
MaxFirst(a, b) == a

Max(a, b) == IF a > b THEN a ELSE b

Abs(x) == IF x < 0 THEN 0 - x ELSE x

\* isValidIndex with <= in place of <
isValidIndexInclusive(index) == index >= 0 /\ index <= TOTAL_CELLS

isValidIndex(index) == index >= 0 /\ index < TOTAL_CELLS

indexToPosition(index) == [row |-> index \div GRID_SIZE, col |-> index % GRID_SIZE]

positionToIndex(row, col) == row * GRID_SIZE + col

\* areAdjacent on the distance of the indices, without rows and columns
areAdjacentByDistance(indexA, indexB) ==
  Abs(indexA - indexB) = 1 \/ Abs(indexA - indexB) = GRID_SIZE

areAdjacent(indexA, indexB) ==
  LET rowA == indexA \div GRID_SIZE
      colA == indexA % GRID_SIZE
      rowB == indexB \div GRID_SIZE
      colB == indexB % GRID_SIZE
      rowDiff == Abs(rowA - rowB)
      colDiff == Abs(colA - colB)
  IN  (rowDiff = 1 /\ colDiff = 0) \/ (rowDiff = 0 /\ colDiff = 1)

\* ------------------------------------------------------------------------
\* Cells.  A grid is a function from positions to cells; the store's empty
\* array [] is the function with the empty domain.  null (a slot vacated by
\* gravity) and undefined fields are sentinel values.
\* ------------------------------------------------------------------------
NullCell == [id |-> 0, color |-> "null", index |-> 0 - 1, isMatched |-> FALSE, isSelected |-> FALSE]

EmptyGrid == [i \in {} |-> NullCell]

\* {...undefined, index}: the object performSwap builds from a missing cell
HoleCell(index) == [id |-> 0, color |-> "undefined", index |-> index, isMatched |-> FALSE, isSelected |-> FALSE]

createElement(id, index, color) ==
  [id |-> id, color |-> color, index |-> index, isMatched |-> FALSE, isSelected |-> FALSE]

IsFullGrid(grid) == DOMAIN grid = Indices

\* an array built by a spread, a map or a loop: all its entries exist once
\* it is built
Array(g) == IF g = EmptyGrid THEN EmptyGrid ELSE g

\* b, computed once a has been computed: the iterations of a loop run one
\* after the other
After(a, b) == IF a = a THEN b ELSE b

\* ------------------------------------------------------------------------
\* Match detection
\* ------------------------------------------------------------------------
\* a JS Set keeps insertion order: a sequence without duplicates
RECURSIVE SetAddAll(_, _)
SetAddAll(set, items) ==
  IF items = << >>
  THEN set
  ELSE IF \E k \in 1 .. Len(set) : set[k] = Head(items)
       THEN SetAddAll(set, Tail(items))
       ELSE SetAddAll(Append(set, Head(items)), Tail(items))

SeqToSet(seq) == {seq[k] : k \in 1 .. Len(seq)}

\* the positions line[from .. to - 1], in loop order
LineRange(line, from, to) == [k \in 1 .. (to - from) |-> line[from + k - 1]]

\* the grid positions of row n (horizontal) or column n, by the inner loop
\* variable
Line(horizontal, n) ==
  [k \in 0 .. (GRID_SIZE - 1) |-> IF horizontal THEN n * GRID_SIZE + k ELSE k * GRID_SIZE + n]

\* the inner loop for one row or column: pos is the loop variable, st the
\* scan state (matchStart, matchColor, matchLength) and matched the
\* positions this line has added so far, in the order of the adds
RECURSIVE ScanLine(_, _, _, _, _)
ScanLine(grid, line, pos, st, matched) ==
  IF pos = GRID_SIZE
  THEN IF st.matchLength >= MIN_MATCH
       THEN SetAddAll(matched, LineRange(line, st.matchStart, GRID_SIZE))
       ELSE matched
  ELSE LET element == grid[line[pos]]
       IN  IF element.color = st.matchColor
           THEN ScanLine(grid, line, pos + 1, [st EXCEPT !.matchLength = @ + 1], matched)
           ELSE ScanLine(grid, line, pos + 1,
                  [matchStart |-> pos, matchColor |-> element.color, matchLength |-> 1],
                  IF st.matchLength >= MIN_MATCH
                  THEN SetAddAll(matched, LineRange(line, st.matchStart, pos))
                  ELSE matched)

\* the outer loop: the Set after the lines 0 .. n - 1 have been scanned
RECURSIVE ScanLines(_, _, _)
ScanLines(grid, horizontal, n) ==
  IF n = 0
  THEN << >>
  ELSE SetAddAll(ScanLines(grid, horizontal, n - 1),
                 ScanLine(grid, Line(horizontal, n - 1), 1,
                   [matchStart |-> 0,
                    matchColor |-> grid[Line(horizontal, n - 1)[0]].color,
                    matchLength |-> 1],
                   << >>))

findHorizontalMatches(grid) == ScanLines(grid, TRUE, GRID_SIZE)

\* findVerticalMatches that scans the rows
findVerticalMatchesByRow(grid) == ScanLines(grid, TRUE, GRID_SIZE)

findVerticalMatches(grid) == ScanLines(grid, FALSE, GRID_SIZE)

Neighbors(current) ==
  LET row == indexToPosition(current).row
      col == indexToPosition(current).col
  IN  << IF row > 0 THEN positionToIndex(row - 1, col) ELSE 0 - 1,
         IF row < GRID_SIZE - 1 THEN positionToIndex(row + 1, col) ELSE 0 - 1,
         IF col > 0 THEN positionToIndex(row, col - 1) ELSE 0 - 1,
         IF col < GRID_SIZE - 1 THEN positionToIndex(row, col + 1) ELSE 0 - 1 >>

\* the while loop of floodFill over the entries queue[k ..] that the queue
\* holds at one time; fl is the visited Set, the connected array and the
\* entries pushed behind them
RECURSIVE FloodBatch(_, _, _, _, _)
FloodBatch(grid, targetColor, queue, k, fl) ==
  IF k > Len(queue)
  THEN fl
  ELSE LET current == queue[k]
       IN  IF current \in fl.visited
           THEN FloodBatch(grid, targetColor, queue, k + 1, fl)
           ELSE IF grid[current].color # targetColor
                THEN FloodBatch(grid, targetColor, queue, k + 1,
                       [fl EXCEPT !.visited = @ \cup {current}])
                ELSE LET vis == fl.visited \cup {current}
                         nb  == Neighbors(current)
                         add == SelectSeq(nb, LAMBDA n : n >= 0 /\ n \notin vis)
                     IN  FloodBatch(grid, targetColor, queue, k + 1,
                           [visited |-> vis,
                            connected |-> Append(fl.connected, current),
                            pushed |-> fl.pushed \o add])

\* the while loop of floodFill: the queue is worked off front to back, the
\* pushed entries after the ones already there
RECURSIVE FloodLoop(_, _, _, _, _)
FloodLoop(grid, targetColor, queue, visited, connected) ==
  IF queue = << >>
  THEN connected
  ELSE LET fl == FloodBatch(grid, targetColor, queue, 1,
                   [visited |-> visited, connected |-> connected, pushed |-> << >>])
       IN  FloodLoop(grid, targetColor, fl.pushed, fl.visited, fl.connected)

floodFill(grid, startIndex) ==
  FloodLoop(grid, grid[startIndex].color, <<startIndex>>, {}, << >>)

\* the for-of loop of detectAllMatches over allMatched, with the processed Set
RECURSIVE DetectLoop(_, _, _, _, _)
DetectLoop(grid, allMatched, k, processed, results) ==
  IF k > Len(allMatched)
  THEN results
  ELSE IF allMatched[k] \in processed
       THEN DetectLoop(grid, allMatched, k + 1, processed, results)
       ELSE LET connected == floodFill(grid, allMatched[k])
                matchedConnected == SelectSeq(connected, LAMBDA i : i \in SeqToSet(allMatched))
            IN  DetectLoop(grid, allMatched, k + 1, processed \cup SeqToSet(matchedConnected),
                  IF Len(matchedConnected) >= MIN_MATCH
                  THEN Append(results, [matchedIndices |-> matchedConnected,
                                        count |-> Len(matchedConnected),
                                        isSpecial |-> Len(matchedConnected) >= 4])
                  ELSE results)

\* detectAllMatches that returns the cells of each scan as one group
detectAllMatchesByScan(grid) ==
  LET rows    == findHorizontalMatches(grid)
      columns == findVerticalMatches(grid)
      result(found) == [matchedIndices |-> found, count |-> Len(found), isSpecial |-> Len(found) >= 4]
  IN  (IF Len(rows) = 0 THEN << >> ELSE <<result(rows)>>)
        \o (IF Len(columns) = 0 THEN << >> ELSE <<result(columns)>>)

detectAllMatches(grid) ==
  LET allMatched == SetAddAll(findHorizontalMatches(grid), findVerticalMatches(grid))
  IN  IF Len(allMatched) = 0 THEN << >> ELSE DetectLoop(grid, allMatched, 1, {}, << >>)

\* new Set(matches.flatMap(m => m.matchedIndices)), in insertion order
RECURSIVE FlatMatched(_, _, _)
FlatMatched(matches, m, acc) ==
  IF m > Len(matches)
  THEN acc
  ELSE FlatMatched(matches, m + 1, SetAddAll(acc, matches[m].matchedIndices))

\* ------------------------------------------------------------------------
\* Gravity and refill
\* ------------------------------------------------------------------------
\* the second inner loop of applyGravity: the slots writePos .. 0 of the
\* column become null
RECURSIVE NullAbove(_, _, _)
NullAbove(newGrid, col, row) ==
  IF row < 0
  THEN newGrid
  ELSE NullAbove([newGrid EXCEPT ![row * GRID_SIZE + col] = NullCell], col, row - 1)

\* the first inner loop of applyGravity for one column: row runs from the
\* bottom row up, writePos is the next free slot, newGrid is updated in place
RECURSIVE GravityColumn(_, _, _, _)
GravityColumn(newGrid, col, row, writePos) ==
  IF row < 0
  THEN NullAbove(newGrid, col, writePos)
  ELSE LET readIndex  == row * GRID_SIZE + col
           element    == newGrid[readIndex]
           writeIndex == writePos * GRID_SIZE + col
       IN  IF element # NullCell /\ ~element.isMatched
           THEN GravityColumn(
                  IF writeIndex # readIndex
                  THEN [newGrid EXCEPT ![writeIndex] = [element EXCEPT !.index = writeIndex],
                                       ![readIndex]  = NullCell]
                  ELSE newGrid,
                  col, row - 1, writePos - 1)
           ELSE GravityColumn(newGrid, col, row - 1, writePos)

RECURSIVE GravityColumns(_, _)
GravityColumns(newGrid, col) ==
  IF col = GRID_SIZE
  THEN newGrid
  ELSE LET done == GravityColumn(newGrid, col, GRID_SIZE - 1, GRID_SIZE - 1)
       IN  After(done, GravityColumns(done, col + 1))

\* applyGravity that empties the matched cells and moves nothing
applyGravityInPlace(grid) ==
  Array([i \in DOMAIN grid |-> IF grid[i].isMatched THEN NullCell ELSE grid[i]])

applyGravity(grid) == GravityColumns(Array(grid), 0)

\* the colour that Math.random picks for the k-th element created by one
\* refill (k = 0, 1, ...); a stream is a pair <<base, step>>
RefillColor(stream, k) == ALL_ELEMENT_TYPES[((stream[1] + stream[2] * k) % Len(ALL_ELEMENT_TYPES)) + 1]

\* the positions that are null, in ascending order (the order of grid.map)
NullsBefore(grid, index) == Cardinality({j \in DOMAIN grid : j < index /\ grid[j] = NullCell})

\* a refill that creates every cell of the board anew
refillEmptyCellsAll(grid, firstId, stream) ==
  Array([index \in DOMAIN grid |->
           createElement(firstId + index, index, RefillColor(stream, index))])

\* a refill whose new elements keep the isMatched flag of the cells they
\* replace
refillEmptyCellsFlagged(grid, firstId, stream) ==
  Array([index \in DOMAIN grid |->
           IF grid[index] = NullCell
           THEN [createElement(firstId + NullsBefore(grid, index), index,
                               RefillColor(stream, NullsBefore(grid, index)))
                   EXCEPT !.isMatched = TRUE]
           ELSE grid[index]])

\* refillEmptyCells: firstId is the id of the first element created, the
\* ids of one refill are consecutive
refillEmptyCells(grid, firstId, stream) ==
  Array([index \in DOMAIN grid |->
           IF grid[index] = NullCell
           THEN createElement(firstId + NullsBefore(grid, index), index,
                              RefillColor(stream, NullsBefore(grid, index)))
           ELSE grid[index]])

NullCount(grid) == Cardinality({j \in DOMAIN grid : grid[j] = NullCell})

\* ------------------------------------------------------------------------
\* Level catalogue (src/unnamed/part_001): rocks and locks are the positions
\* row * GRID_SIZE + col of the level's grid that are CellType.ROCK / LOCK
\* ------------------------------------------------------------------------
LEVELS ==
  << [id |-> 1,  moves |-> 25, targetProgress |-> 3000,  rocks |-> {}, locks |-> {}],
     [id |-> 2,  moves |-> 22, targetProgress |-> 4500,  rocks |-> {}, locks |-> {}],
     [id |-> 3,  moves |-> 20, targetProgress |-> 6000,  rocks |-> {}, locks |-> {}],
     [id |-> 4,  moves |-> 20, targetProgress |-> 6500,  rocks |-> {27, 28, 35, 36}, locks |-> {}],
     [id |-> 5,  moves |-> 18, targetProgress |-> 7000,  rocks |-> {16, 23, 40, 47, 27, 36}, locks |-> {}],
     [id |-> 6,  moves |-> 18, targetProgress |-> 7500,
      rocks |-> {10, 13, 25, 30, 33, 38, 50, 53}, locks |-> {}],
     [id |-> 7,  moves |-> 18, targetProgress |-> 8000,  rocks |-> {}, locks |-> {3, 4, 59, 60}],
     [id |-> 8,  moves |-> 16, targetProgress |-> 8500,  rocks |-> {27, 36}, locks |-> {9, 14, 49, 54}],
     [id |-> 9,  moves |-> 15, targetProgress |-> 9000,
      rocks |-> {18, 21, 27, 28, 35, 36, 42, 45}, locks |-> {0, 7, 56, 63}],
     [id |-> 10, moves |-> 12, targetProgress |-> 10000,
      rocks |-> {11, 12, 25, 30, 33, 38, 51, 52}, locks |-> {0, 1, 6, 7, 56, 57, 62, 63}] >>

\* LEVELS.find(level => level.id === id); << >> stands for undefined
getLevelById(id) ==
  IF \E k \in 1 .. Len(LEVELS) : LEVELS[k].id = id
  THEN LEVELS[CHOOSE k \in 1 .. Len(LEVELS) : LEVELS[k].id = id]
  ELSE << >>

\* getNextLevel that returns LEVELS[currentIndex + 2]
getNextLevelSkip(currentId) ==
  IF \E k \in 1 .. (Len(LEVELS) - 2) : LEVELS[k].id = currentId
  THEN LEVELS[(CHOOSE k \in 1 .. (Len(LEVELS) - 2) : LEVELS[k].id = currentId) + 2]
  ELSE << >>

getNextLevel(currentId) ==
  IF \E k \in 1 .. (Len(LEVELS) - 1) : LEVELS[k].id = currentId
  THEN LEVELS[(CHOOSE k \in 1 .. (Len(LEVELS) - 1) : LEVELS[k].id = currentId) + 1]
  ELSE << >>

getFirstLevel == LEVELS[1]

\* ------------------------------------------------------------------------
\* Board generator
\* ------------------------------------------------------------------------
\* One recorded sequence of first draws of Math.random, as colour numbers
\* per cell; a redraw for the same cell yields the next colour.  A seed
\* shifts the draws of the lower half of the board.
FirstDraw ==
  << 0, 0, 1, 0, 2, 3, 2, 3,
     1, 2, 0, 3, 0, 1, 0, 1,
     2, 3, 2, 1, 2, 3, 2, 3,
     3, 0, 0, 0, 1, 2, 1, 2,
     0, 1, 3, 2, 3, 0, 3, 0,
     1, 2, 0, 3, 0, 1, 0, 1,
     2, 3, 1, 0, 1, 2, 1, 2,
     3, 0, 2, 1, 2, 3, 2, 3 >>

\* getRandomColor() for cell index, draw number attempt (0 = first draw)
GenColor(seed, index, attempt) ==
  ALL_ELEMENT_TYPES[((FirstDraw[index + 1] + seed * (index \div (TOTAL_CELLS \div 2)) + attempt)
                       % Len(ALL_ELEMENT_TYPES)) + 1]

wouldCreateMatch(grid, index, color) ==
  LET row == index \div GRID_SIZE
      col == index % GRID_SIZE
  IN  \/ /\ col >= 2
         /\ grid[index - 1].color = color
         /\ grid[index - 2].color = color
      \/ /\ row >= 2
         /\ grid[index - GRID_SIZE].color = color
         /\ grid[index - 2 * GRID_SIZE].color = color

maxAttempts == 20

\* the while loop of generateInitialGrid: the colour it ends with
RECURSIVE RetryColor(_, _, _, _)
RetryColor(grid, seed, index, attempts) ==
  IF wouldCreateMatch(grid, index, GenColor(seed, index, attempts)) /\ attempts < maxAttempts
  THEN RetryColor(grid, seed, index, attempts + 1)
  ELSE GenColor(seed, index, attempts)

\* the body of the for loop of generateInitialGrid for cell i
GenerateCell(grid, levelConfig, firstId, seed, i) ==
  [grid EXCEPT ![i] =
     IF i \in levelConfig.rocks
     THEN createElement(firstId + i, i, GenColor(seed, i, 0))
     ELSE IF i \in levelConfig.locks
          THEN createElement(firstId + i, i, GenColor(seed, i, 0))
          ELSE createElement(firstId + i, i, RetryColor(grid, seed, i, 0))]

\* the iterations lo .. hi - 1 of the for loop, in order: those of the
\* first half, then those of the second half
RECURSIVE GenerateLoop(_, _, _, _, _, _)
GenerateLoop(grid, levelConfig, firstId, seed, lo, hi) ==
  IF hi - lo = 1
  THEN GenerateCell(grid, levelConfig, firstId, seed, lo)
  ELSE LET half == GenerateLoop(grid, levelConfig, firstId, seed, lo, (lo + hi) \div 2)
       IN  After(half, GenerateLoop(half, levelConfig, firstId, seed, (lo + hi) \div 2, hi))

generateInitialGrid(levelConfig, firstId, seed) ==
  GenerateLoop(Array([i \in Indices |-> NullCell]), levelConfig, firstId, seed, 0, TOTAL_CELLS)

\* ------------------------------------------------------------------------
\* Bounds of the model
\* ------------------------------------------------------------------------
\* taps and swipes land on the cells MinInputIndex .. MaxInputIndex, or
\* outside the board
MinInputIndex == 2

MaxInputIndex == 3

\* performSwap is started at most MaxSwaps times
MaxSwaps == 2

\* a cascade is followed for at most MaxCascade rounds
MaxCascade == 2

\* resetGame / restartLevel / nextLevel are called at most MaxResets times
MaxResets == 1

\* seeds of the generator's draws are 0 .. MaxGenSeed
MaxGenSeed == 0

\* refill streams <<base, step>> with base in 0 .. MaxRefillBase
MaxRefillBase == 0

RefillStreams == {<<b, st>> : b \in 0 .. MaxRefillBase, st \in 0 .. 1}

InputIndices == (MinInputIndex .. MaxInputIndex) \cup {0 - 1, TOTAL_CELLS}

Directions == {"up", "down", "left", "right"}

\* handleRevive: addMoves(5)
ReviveMoves == 5

\* ------------------------------------------------------------------------
\* State: the store (src/App.tsx) and the hook's ref and running async calls
\* ------------------------------------------------------------------------
VARIABLES
  grid,             \* store.grid
  phase,            \* store.phase
  selectedIndex,    \* store.selectedIndex
  score,            \* store.score
  combo,            \* store.combo
  highScore,        \* store.highScore
  teamProgress,     \* store.teamProgress, the fraction num / den
  isLevelComplete,  \* store.isLevelComplete
  moves,            \* store.moves
  maxMoves,         \* store.maxMoves
  levelState,       \* store.levelState
  currentLevel,     \* store.currentLevel (currentLevelConfig = getLevelById(currentLevel))
  isMuted,          \* store.isMuted
  isProcessingRef,  \* isProcessingRef.current
  swipeGrid,        \* the grid in the closure of the performSwap that handleSwipe calls
  tasks,            \* the performSwap calls that have not returned, with their locals
  nextId,           \* the next element id (ids are unique)
  swapCount,        \* number of performSwap calls started
  resetCount,       \* number of reset operations
  contributionParticles  \* store.contributionParticles, without id, position and time

storeVars == <<grid, phase, selectedIndex, score, combo, highScore, teamProgress,
               isLevelComplete, moves, maxMoves, levelState, currentLevel, isMuted,
               contributionParticles>>

vars == <<grid, phase, selectedIndex, score, combo, highScore, teamProgress,
          isLevelComplete, moves, maxMoves, levelState, currentLevel, isMuted,
          isProcessingRef, swipeGrid, tasks, nextId, swapCount, resetCount,
          contributionParticles>>

currentLevelConfig == getLevelById(currentLevel)

\* teamProgress >= 1
ProgressFull(p) == p.num >= p.den

ZeroProgress == [num |-> 0, den |-> 1]

\* What the persist middleware restores at start (partialize): the level,
\* moves, score and teamProgress of an earlier session.
\*   a fresh install; level 1 with one move left, 40 and 1560 points short
\*   of the target; level 1 with two moves left, 40 points short; level 1
\*   abandoned on the game-over screen; level 4 fresh; the last level with
\*   two moves left, 40 points short
PersistedStates ==
  { [currentLevel |-> 1, moves |-> 25, score |-> 0,    teamProgress |-> ZeroProgress],
    [currentLevel |-> 1, moves |-> 1,  score |-> 2960, teamProgress |-> [num |-> 2960, den |-> 3000]],
    [currentLevel |-> 1, moves |-> 2,  score |-> 2960, teamProgress |-> [num |-> 2960, den |-> 3000]],
    [currentLevel |-> 1, moves |-> 1,  score |-> 1440, teamProgress |-> [num |-> 1440, den |-> 3000]],
    [currentLevel |-> 1, moves |-> 0,  score |-> 1500, teamProgress |-> [num |-> 1500, den |-> 3000]],
    [currentLevel |-> 4, moves |-> 20, score |-> 0,    teamProgress |-> ZeroProgress],
    [currentLevel |-> 10, moves |-> 2, score |-> 9960, teamProgress |-> [num |-> 9960, den |-> 10000]] }

\* initialState merged with the persisted part, onRehydrateStorage, and the
\* GameBoard mount effect initializeGame().  handleSwipe is the callback of
\* the first render, whose grid is initialState.grid = []: the mount effect
\* changes neither phase nor levelState.
Init ==
  \E p \in PersistedStates, seed \in 0 .. MaxGenSeed :
    /\ grid = generateInitialGrid(getLevelById(p.currentLevel), 1, seed)
    /\ phase = "IDLE"
    /\ selectedIndex = 0 - 1
    /\ score = p.score
    /\ combo = 0
    /\ highScore = p.score
    /\ teamProgress = p.teamProgress
    /\ isLevelComplete = FALSE
    /\ moves = p.moves
    /\ maxMoves = getLevelById(p.currentLevel).moves
    /\ levelState = "PLAYING"
    /\ currentLevel = p.currentLevel
    /\ isMuted = FALSE
    /\ isProcessingRef = FALSE
    /\ swipeGrid = EmptyGrid
    /\ tasks = << >>
    /\ nextId = 1 + TOTAL_CELLS
    /\ swapCount = 0
    /\ resetCount = 0
    /\ contributionParticles = << >>

\* The render after a step: handleSwipe is created anew only if phase or
\* levelState has changed (its dependency list names neither performSwap nor
\* grid), and then it calls the performSwap of this render
Rerender ==
  swipeGrid' = IF phase' # phase \/ levelState' # levelState THEN grid' ELSE swipeGrid

\* no synchronous run of the hook is in the middle of processCascade's loop
\* head; timers and input events only run between such runs
Quiescent == \A t \in 1 .. Len(tasks) : tasks[t].pc # "matching"

RemoveAt(seq, t) == [k \in 1 .. (Len(seq) - 1) |-> IF k < t THEN seq[k] ELSE seq[k + 1]]

\* grid[i] as performSwap reads it: a missing entry is undefined
CellAt(g, i) == IF i \in DOMAIN g THEN g[i] ELSE HoleCell(i)

\* const newGrid = [...grid]; swap of the two cells with their index fields
SwapCells(g, fromIndex, toIndex) ==
  Array([i \in DOMAIN g \cup {fromIndex, toIndex} |->
           IF i = fromIndex THEN [CellAt(g, toIndex) EXCEPT !.index = fromIndex]
           ELSE IF i = toIndex THEN [CellAt(g, fromIndex) EXCEPT !.index = toIndex]
           ELSE g[i]])

\* performSwap without the isProcessingRef test
performSwapNoRef(closureGrid, fromIndex, toIndex) ==
  /\ swapCount < MaxSwaps
  /\ isProcessingRef' = TRUE
  /\ phase' = "SWAPPING"
  /\ selectedIndex' = 0 - 1
  /\ grid' = SwapCells(closureGrid, fromIndex, toIndex)
  /\ tasks' = Append(tasks, [pc |-> "swapWait", fromIndex |-> fromIndex, toIndex |-> toIndex,
                             grid |-> grid, board |-> SwapCells(closureGrid, fromIndex, toIndex),
                             cascadeCount |-> 0, reset |-> FALSE])
  /\ swapCount' = swapCount + 1
  /\ UNCHANGED <<contributionParticles, score, combo, highScore, teamProgress, isLevelComplete, moves, maxMoves,
                 levelState, currentLevel, isMuted, nextId, resetCount>>

\* performSwap up to its first await; closureGrid is the grid of the render
\* that created this performSwap.  The fields grid and reset of the task are
\* not locals of the code: grid records the store's board at the time of the
\* call, reset whether the store has been reset since the call.
performSwap(closureGrid, fromIndex, toIndex) ==
  IF isProcessingRef
  THEN UNCHANGED vars
  ELSE /\ swapCount < MaxSwaps
       /\ isProcessingRef' = TRUE
       /\ phase' = "SWAPPING"
       /\ selectedIndex' = 0 - 1
       /\ grid' = SwapCells(closureGrid, fromIndex, toIndex)
       /\ tasks' = Append(tasks, [pc |-> "swapWait", fromIndex |-> fromIndex, toIndex |-> toIndex,
                                  grid |-> grid, board |-> SwapCells(closureGrid, fromIndex, toIndex),
                                  cascadeCount |-> 0, reset |-> FALSE])
       /\ swapCount' = swapCount + 1
       /\ UNCHANGED <<contributionParticles, score, combo, highScore, teamProgress, isLevelComplete, moves, maxMoves,
                      levelState, currentLevel, isMuted, nextId, resetCount>>

getSwipeTargetIndex(fromIndex, direction) ==
  LET row == indexToPosition(fromIndex).row
      col == indexToPosition(fromIndex).col
      targetRow == IF direction = "up" THEN Max(0, row - 1)
                   ELSE IF direction = "down" THEN Min(GRID_SIZE - 1, row + 1)
                   ELSE row
      targetCol == IF direction = "left" THEN Max(0, col - 1)
                   ELSE IF direction = "right" THEN Min(GRID_SIZE - 1, col + 1)
                   ELSE col
  IN  IF targetRow # row \/ targetCol # col THEN positionToIndex(targetRow, targetCol) ELSE 0 - 1

isValidSwap(from, to) == isValidIndex(from) /\ isValidIndex(to) /\ areAdjacent(from, to)

handleSwipe(fromIndex, direction) ==
  IF phase # "IDLE" \/ levelState # "PLAYING"
  THEN UNCHANGED vars
  ELSE IF ~isValidIndex(fromIndex)
       THEN UNCHANGED vars
       ELSE LET targetIndex == getSwipeTargetIndex(fromIndex, direction)
            IN  IF targetIndex # 0 - 1 /\ isValidSwap(fromIndex, targetIndex)
                THEN performSwap(swipeGrid, fromIndex, targetIndex)
                ELSE UNCHANGED vars

\* handleElementTap that tests only levelState
handleElementTapAnyPhase(index) ==
  IF levelState # "PLAYING"
  THEN UNCHANGED vars
  ELSE IF ~isValidIndex(index)
       THEN UNCHANGED vars
       ELSE IF selectedIndex = 0 - 1
            THEN selectedIndex' = index /\ UNCHANGED <<contributionParticles, grid, phase, score, combo, highScore,
                   teamProgress, isLevelComplete, moves, maxMoves, levelState, currentLevel,
                   isMuted, isProcessingRef, swipeGrid, tasks, nextId, swapCount, resetCount>>
            ELSE IF selectedIndex = index
                 THEN selectedIndex' = 0 - 1 /\ UNCHANGED <<contributionParticles, grid, phase, score, combo, highScore,
                        teamProgress, isLevelComplete, moves, maxMoves, levelState, currentLevel,
                        isMuted, isProcessingRef, swipeGrid, tasks, nextId, swapCount, resetCount>>
                 ELSE IF areAdjacent(selectedIndex, index)
                      THEN performSwap(grid, selectedIndex, index)
                      ELSE selectedIndex' = index /\ UNCHANGED <<contributionParticles, grid, phase, score, combo,
                             highScore, teamProgress, isLevelComplete, moves, maxMoves, levelState,
                             currentLevel, isMuted, isProcessingRef, swipeGrid, tasks, nextId,
                             swapCount, resetCount>>

handleElementTap(index) ==
  IF phase # "IDLE" \/ levelState # "PLAYING"
  THEN UNCHANGED vars
  ELSE IF ~isValidIndex(index)
       THEN UNCHANGED vars
       ELSE IF selectedIndex = 0 - 1
            THEN selectedIndex' = index /\ UNCHANGED <<contributionParticles, grid, phase, score, combo, highScore,
                   teamProgress, isLevelComplete, moves, maxMoves, levelState, currentLevel, isMuted,
                   isProcessingRef, swipeGrid, tasks, nextId, swapCount, resetCount>>
            ELSE IF selectedIndex = index
                 THEN selectedIndex' = 0 - 1 /\ UNCHANGED <<contributionParticles, grid, phase, score, combo, highScore,
                        teamProgress, isLevelComplete, moves, maxMoves, levelState, currentLevel, isMuted,
                        isProcessingRef, swipeGrid, tasks, nextId, swapCount, resetCount>>
                 ELSE IF areAdjacent(selectedIndex, index)
                      THEN performSwap(grid, selectedIndex, index)
                      ELSE selectedIndex' = index /\ UNCHANGED <<contributionParticles, grid, phase, score, combo,
                             highScore, teamProgress, isLevelComplete, moves, maxMoves, levelState,
                             currentLevel, isMuted, isProcessingRef, swipeGrid, tasks, nextId, swapCount, resetCount>>

HandleSwipe == \E fromIndex \in InputIndices, direction \in Directions :
                 Quiescent /\ handleSwipe(fromIndex, direction) /\ Rerender

HandleElementTap == \E index \in InputIndices :
                      Quiescent /\ handleElementTap(index) /\ Rerender

\* ------------------------------------------------------------------------
\* Store operations used by the cascade, as functions of the values they read
\* ------------------------------------------------------------------------
\* checkWinLossCondition whose loss test is moves < 0
checkWinLossConditionBelowZero(progress, mv, ls) ==
  IF ls # "PLAYING" THEN ls
  ELSE IF ProgressFull(progress) THEN "WON"
  ELSE IF mv < 0 /\ ~ProgressFull(progress) THEN "LOST"
  ELSE ls

\* checkWinLossCondition: the resulting levelState
checkWinLossCondition(progress, mv, ls) ==
  IF ls # "PLAYING" THEN ls
  ELSE IF ProgressFull(progress) THEN "WON"
  ELSE IF mv = 0 /\ ~ProgressFull(progress) THEN "LOST"
  ELSE ls

\* checkWinLossCondition: the resulting isLevelComplete
checkWinSetsComplete(progress, ls, complete) ==
  IF ls = "PLAYING" /\ ProgressFull(progress) THEN TRUE ELSE complete

\* decrementMoves: the resulting moves
decrementMoves(mv, ls) == IF ls # "PLAYING" THEN mv ELSE Max(mv - 1, 0)

\* addScore: the resulting score
addScore(sc, points) == sc + points

\* addContribution reads the score that addScore has just written
addContribution(sc, complete, points) == IF complete THEN sc ELSE sc + points

\* contributionProgress without Math.min
contributionProgressNoMin(newScore, targetScore) ==
  [num |-> newScore, den |-> targetScore]

\* contributionProgress against CONTRIBUTION_CONFIG.targetScore instead of
\* the level's target
contributionProgressGlobalTarget(newScore, targetScore) ==
  [num |-> Min(newScore, 10000), den |-> 10000]

\* Math.min(newScore / targetScore, 1)
contributionProgress(newScore, targetScore) ==
  [num |-> Min(newScore, targetScore), den |-> targetScore]

\* ------------------------------------------------------------------------
\* The steps of performSwap / processCascade between their awaits
\* ------------------------------------------------------------------------
\* after the first 300 ms: detectAllMatches(newGrid), revert or go on
SwapResolved(t) ==
  LET task == tasks[t] IN
  /\ Quiescent
  /\ task.pc = "swapWait"
  /\ IF ~IsFullGrid(task.board)
     THEN \* grid[i].color of a missing cell throws: the call never returns
          /\ tasks' = RemoveAt(tasks, t)
          /\ UNCHANGED <<storeVars, isProcessingRef, nextId, swapCount, resetCount>>
     ELSE IF Len(detectAllMatches(task.board)) = 0
          THEN /\ phase' = "SWAPPING"
               /\ grid' = SwapCells(task.board, task.fromIndex, task.toIndex)
               /\ tasks' = [tasks EXCEPT ![t].pc = "revertWait"]
               /\ UNCHANGED <<contributionParticles, selectedIndex, score, combo, highScore, teamProgress,
                              isLevelComplete, moves, maxMoves, levelState, currentLevel, isMuted,
                              isProcessingRef, nextId, swapCount, resetCount>>
          ELSE \* decrementMoves(); processCascade(newGrid) up to the detection
               /\ moves' = decrementMoves(moves, levelState)
               /\ levelState' = IF levelState # "PLAYING" THEN levelState
                                ELSE checkWinLossCondition(teamProgress, moves', levelState)
               /\ isLevelComplete' = IF levelState # "PLAYING" THEN isLevelComplete
                                     ELSE checkWinSetsComplete(teamProgress, levelState,
                                                               isLevelComplete)
               /\ phase' = "MATCHING"
               /\ tasks' = [tasks EXCEPT ![t].pc = "matching", ![t].cascadeCount = 0]
               /\ UNCHANGED <<contributionParticles, grid, selectedIndex, score, combo, highScore, teamProgress,
                              maxMoves, currentLevel, isMuted, isProcessingRef, nextId, swapCount,
                              resetCount>>
  /\ Rerender

\* after the second 300 ms of a reverted swap
RevertDone(t) ==
  /\ Quiescent
  /\ tasks[t].pc = "revertWait"
  /\ phase' = "IDLE"
  /\ isProcessingRef' = FALSE
  /\ tasks' = RemoveAt(tasks, t)
  /\ UNCHANGED <<contributionParticles, grid, selectedIndex, score, combo, highScore, teamProgress, isLevelComplete,
                 moves, maxMoves, levelState, currentLevel, isMuted, nextId, swapCount, resetCount>>
  /\ Rerender

\* MarkMatched that looks the element's id up in matchedIndices
MarkMatchedById(workingGrid, matchedIndices) ==
  Array([i \in DOMAIN workingGrid |->
           [workingGrid[i] EXCEPT !.isMatched = (workingGrid[i].id \in matchedIndices)]])

\* workingGrid.map(element => ({...element, isMatched: matchedIndices.has(element.index)}))
MarkMatched(workingGrid, matchedIndices) ==
  Array([i \in DOMAIN workingGrid |->
           [workingGrid[i] EXCEPT !.isMatched = (workingGrid[i].index \in matchedIndices)]])

\* emitContributionParticle: the particle added to the store; matchedIndices
\* is Array.from of the Set, in insertion order
emitContributionParticle(matchedIndices, contributionGained) ==
  Append(contributionParticles,
         [sourceIndex |-> matchedIndices[(Len(matchedIndices) \div 2) + 1],
          contributionAmount |-> contributionGained])

\* the body of processCascade's loop from detectAllMatches to the 400 ms wait,
\* or the exit of the loop and the return to performSwap
Matching(t) ==
  LET task == tasks[t]
      matches == detectAllMatches(task.board)
      matchedIndices == SeqToSet(FlatMatched(matches, 1, << >>))
      totalMatched == Cardinality(matchedIndices)
      baseScore == totalMatched * 10
      comboMultiplier == task.cascadeCount + 1
      finalScore == baseScore * comboMultiplier
      scored == addScore(score, finalScore)
      newScore == addContribution(scored, isLevelComplete, finalScore)
      newProgress == IF isLevelComplete THEN teamProgress
                     ELSE contributionProgress(newScore, currentLevelConfig.targetProgress)
      complete == IF isLevelComplete THEN isLevelComplete ELSE ProgressFull(newProgress)
  IN
  /\ task.pc = "matching"
  /\ IF Len(matches) = 0
     THEN /\ combo' = IF task.cascadeCount = 0 THEN 0 ELSE combo
          /\ phase' = "IDLE"
          /\ isProcessingRef' = FALSE
          /\ tasks' = RemoveAt(tasks, t)
          /\ UNCHANGED <<contributionParticles, grid, selectedIndex, score, highScore, teamProgress, isLevelComplete,
                         moves, maxMoves, levelState, currentLevel, isMuted, nextId, swapCount,
                         resetCount>>
     ELSE /\ grid' = MarkMatched(task.board, matchedIndices)
          /\ tasks' = [tasks EXCEPT ![t].pc = "matchWait",
                                    ![t].board = MarkMatched(task.board, matchedIndices)]
          /\ score' = newScore
          /\ highScore' = Max(Max(highScore, scored), newScore)
          /\ teamProgress' = newProgress
          /\ combo' = combo + 1
          /\ levelState' = checkWinLossCondition(newProgress, moves, levelState)
          /\ isLevelComplete' = checkWinSetsComplete(newProgress, levelState, complete)
          /\ contributionParticles' =
               emitContributionParticle(FlatMatched(matches, 1, << >>), finalScore)
          /\ UNCHANGED <<phase, selectedIndex, moves, maxMoves, currentLevel, isMuted, isProcessingRef,
                         nextId, swapCount, resetCount>>
  /\ Rerender

\* after the 400 ms match animation
Falling(t) ==
  /\ Quiescent
  /\ tasks[t].pc = "matchWait"
  /\ phase' = "FALLING"
  /\ tasks' = [tasks EXCEPT ![t].pc = "fallWait", ![t].board = applyGravity(tasks[t].board)]
  /\ UNCHANGED <<contributionParticles, grid, selectedIndex, score, combo, highScore, teamProgress, isLevelComplete,
                 moves, maxMoves, levelState, currentLevel, isMuted, isProcessingRef, nextId, swapCount,
                 resetCount>>
  /\ Rerender

\* after 300 ms: refill with fresh elements; in the last round the model
\* follows, only draws that leave no match are taken
Refilling(t) ==
  /\ Quiescent
  /\ tasks[t].pc = "fallWait"
  /\ \E stream \in RefillStreams :
       LET refilled == refillEmptyCells(tasks[t].board, nextId, stream) IN
       /\ tasks[t].cascadeCount + 1 < MaxCascade \/ Len(detectAllMatches(refilled)) = 0
       /\ phase' = "REFILLING"
       /\ grid' = refilled
       /\ tasks' = [tasks EXCEPT ![t].pc = "refillWait", ![t].board = refilled]
       /\ nextId' = nextId + NullCount(tasks[t].board)
  /\ UNCHANGED <<contributionParticles, selectedIndex, score, combo, highScore, teamProgress, isLevelComplete,
                 moves, maxMoves, levelState, currentLevel, isMuted, isProcessingRef, swapCount,
                 resetCount>>
  /\ Rerender

\* after 300 ms: cascadeCount++ and the head of the next iteration
CascadeLoop(t) ==
  /\ Quiescent
  /\ tasks[t].pc = "refillWait"
  /\ phase' = "MATCHING"
  /\ tasks' = [tasks EXCEPT ![t].pc = "matching", ![t].cascadeCount = @ + 1]
  /\ UNCHANGED <<contributionParticles, grid, selectedIndex, score, combo, highScore, teamProgress, isLevelComplete,
                 moves, maxMoves, levelState, currentLevel, isMuted, isProcessingRef, nextId, swapCount,
                 resetCount>>
  /\ Rerender

\* the end of a particle's animation (ContributionParticle,
\* handleAnimationComplete): removeContributionParticle of the store.  All
\* particles fly for the same time, so the oldest one ends first.
RemoveParticle ==
  /\ Quiescent
  /\ contributionParticles # << >>
  /\ contributionParticles' = Tail(contributionParticles)
  /\ UNCHANGED <<grid, phase, selectedIndex, score, combo, highScore, teamProgress,
                 isLevelComplete, moves, maxMoves, levelState, currentLevel, isMuted,
                 isProcessingRef, swipeGrid, tasks, nextId, swapCount, resetCount>>

\* ------------------------------------------------------------------------
\* The application's buttons (src/App.tsx).  The GameOverModal is shown
\* while levelState is LOST and the WinModal while it is WON; a modal covers
\* the footer.
\* ------------------------------------------------------------------------
\* addMoves that leaves levelState as it is
AddMovesKeepOutcome ==
  /\ Quiescent
  /\ levelState = "LOST"
  /\ moves' = moves + ReviveMoves
  /\ UNCHANGED <<contributionParticles, grid, phase, selectedIndex, score, combo, highScore, teamProgress,
                 isLevelComplete, maxMoves, levelState, currentLevel, isMuted, isProcessingRef,
                 tasks, nextId, swapCount, resetCount>>
  /\ Rerender

\* addMoves of the store
addMoves(count) ==
  /\ moves' = moves + count
  /\ levelState' = "PLAYING"
  /\ UNCHANGED <<contributionParticles, grid, phase, selectedIndex, score, combo, highScore, teamProgress,
                 isLevelComplete, maxMoves, currentLevel, isMuted, isProcessingRef, tasks, nextId,
                 swapCount, resetCount>>

\* handleRevive in the GameOverModal: addMoves(5)
AddMoves ==
  /\ Quiescent
  /\ levelState = "LOST"
  /\ addMoves(ReviveMoves)
  /\ Rerender

\* the calls in flight when the store is reset: the reset does not touch them
ResetSeen(running) == [t \in 1 .. Len(running) |-> [running[t] EXCEPT !.reset = TRUE]]

\* initializeGame, run by GameBoard's effect when currentLevelConfig changes
initializeGame(levelConfig, seed) ==
  /\ grid' = generateInitialGrid(levelConfig, nextId, seed)
  /\ nextId' = nextId + TOTAL_CELLS
  /\ phase' = "IDLE"
  /\ selectedIndex' = 0 - 1
  /\ combo' = 0

\* resetGame of the store; the effect runs only if the level object changed.
\* The store update is rendered before the effect runs: if it changes phase
\* or levelState, handleSwipe is created with the grid [] of that render,
\* and the effect's initializeGame leaves phase at IDLE.
resetGame ==
  /\ score' = 0
  /\ teamProgress' = ZeroProgress
  /\ isLevelComplete' = FALSE
  /\ levelState' = "PLAYING"
  /\ currentLevel' = getFirstLevel.id
  /\ moves' = getFirstLevel.moves
  /\ maxMoves' = getFirstLevel.moves
  /\ highScore' = highScore
  /\ isMuted' = isMuted
  /\ contributionParticles' = << >>
  /\ IF currentLevel # getFirstLevel.id
     THEN \E seed \in 0 .. MaxGenSeed : initializeGame(getFirstLevel, seed)
     ELSE /\ grid' = EmptyGrid
          /\ phase' = "IDLE"
          /\ selectedIndex' = 0 - 1
          /\ combo' = 0
          /\ nextId' = nextId
  /\ swipeGrid' = IF phase # "IDLE" \/ levelState # "PLAYING" THEN EmptyGrid ELSE swipeGrid

\* handleNewGame in the footer, handleGiveUp in the GameOverModal
ResetGame ==
  /\ Quiescent
  /\ levelState \in {"PLAYING", "LOST"}
  /\ resetCount < MaxResets
  /\ resetCount' = resetCount + 1
  /\ resetGame
  /\ tasks' = ResetSeen(tasks)
  /\ UNCHANGED <<isProcessingRef, swapCount>>

\* the restart button in the footer: restartLevel of the store
RestartLevel ==
  /\ Quiescent
  /\ levelState = "PLAYING"
  /\ resetCount < MaxResets
  /\ resetCount' = resetCount + 1
  /\ moves' = currentLevelConfig.moves
  /\ maxMoves' = currentLevelConfig.moves
  /\ score' = 0
  /\ teamProgress' = ZeroProgress
  /\ isLevelComplete' = FALSE
  /\ levelState' = "PLAYING"
  /\ combo' = 0
  /\ selectedIndex' = 0 - 1
  /\ grid' = EmptyGrid
  /\ contributionParticles' = << >>
  /\ tasks' = ResetSeen(tasks)
  /\ UNCHANGED <<phase, highScore, currentLevel, isMuted, isProcessingRef, nextId, swapCount>>
  /\ Rerender

\* handleContinue in the WinModal: nextLevel of the store and GameBoard's
\* effect, or resetGame after the last level.  nextLevel changes levelState
\* and sets grid: [], which is rendered before the effect runs: handleSwipe
\* is created with that grid, and again with the new board only if the
\* effect's setPhase('IDLE') changes the phase.
NextLevel ==
  /\ Quiescent
  /\ levelState = "WON"
  /\ resetCount < MaxResets
  /\ resetCount' = resetCount + 1
  /\ IF getNextLevel(currentLevel) = << >>
     THEN resetGame
     ELSE LET nextLevelConfig == getNextLevel(currentLevel) IN
          /\ currentLevel' = nextLevelConfig.id
          /\ moves' = nextLevelConfig.moves
          /\ maxMoves' = nextLevelConfig.moves
          /\ score' = 0
          /\ teamProgress' = ZeroProgress
          /\ isLevelComplete' = FALSE
          /\ levelState' = "PLAYING"
          /\ highScore' = highScore
          /\ isMuted' = isMuted
          /\ contributionParticles' = << >>
          /\ \E seed \in 0 .. MaxGenSeed : initializeGame(nextLevelConfig, seed)
          /\ swipeGrid' = IF phase # "IDLE" THEN grid' ELSE EmptyGrid
  /\ tasks' = ResetSeen(tasks)
  /\ UNCHANGED <<isProcessingRef, swapCount>>

\* "Reset" in the alert of the SettingsModal: clearAllData of the store.  The
\* modal is opened from the HUD and its alert stays open while a cascade
\* runs, so the call can come in any levelState.  initializeGame depends on
\* currentLevelConfig and isMuted: GameBoard's effect runs it if one of them
\* has changed, otherwise the board stays [].
ClearAllData ==
  /\ Quiescent
  /\ resetCount < MaxResets
  /\ resetCount' = resetCount + 1
  /\ score' = 0
  /\ highScore' = 0
  /\ teamProgress' = ZeroProgress
  /\ isLevelComplete' = FALSE
  /\ levelState' = "PLAYING"
  /\ currentLevel' = getFirstLevel.id
  /\ moves' = getFirstLevel.moves
  /\ maxMoves' = getFirstLevel.moves
  /\ isMuted' = FALSE
  /\ contributionParticles' = << >>
  /\ IF currentLevel # getFirstLevel.id \/ isMuted
     THEN \E seed \in 0 .. MaxGenSeed : initializeGame(getFirstLevel, seed)
     ELSE /\ grid' = EmptyGrid
          /\ phase' = "IDLE"
          /\ selectedIndex' = 0 - 1
          /\ combo' = 0
          /\ nextId' = nextId
  /\ swipeGrid' = IF phase # "IDLE" \/ levelState # "PLAYING" THEN EmptyGrid ELSE swipeGrid
  /\ tasks' = ResetSeen(tasks)
  /\ UNCHANGED <<isProcessingRef, swapCount>>

\* the sound button in the footer: toggleMute of the store; initializeGame
\* depends on isMuted, so GameBoard's effect runs it again
ToggleMute ==
  /\ Quiescent
  /\ levelState = "PLAYING"
  /\ resetCount < MaxResets
  /\ resetCount' = resetCount + 1
  /\ isMuted' = ~isMuted
  /\ \E seed \in 0 .. MaxGenSeed : initializeGame(currentLevelConfig, seed)
  /\ UNCHANGED <<contributionParticles, score, highScore, teamProgress, isLevelComplete, moves, maxMoves, levelState,
                 currentLevel, isProcessingRef, tasks, swapCount>>
  /\ Rerender

Next ==
  \/ HandleElementTap
  \/ HandleSwipe
  \/ \E t \in 1 .. Len(tasks) : SwapResolved(t)
  \/ \E t \in 1 .. Len(tasks) : RevertDone(t)
  \/ \E t \in 1 .. Len(tasks) : Matching(t)
  \/ \E t \in 1 .. Len(tasks) : Falling(t)
  \/ \E t \in 1 .. Len(tasks) : Refilling(t)
  \/ \E t \in 1 .. Len(tasks) : CascadeLoop(t)
  \/ RemoveParticle
  \/ AddMoves
  \/ ResetGame
  \/ RestartLevel
  \/ NextLevel
  \/ ToggleMute
  \/ ClearAllData

Spec == Init /\ [][Next]_vars

\* ------------------------------------------------------------------------
\* Properties
\* ------------------------------------------------------------------------
\* the step of the call t that scores a round: Matching has found groups
ScoringStep(t) ==
  /\ t <= Len(tasks')
  /\ tasks[t].pc = "matching"
  /\ tasks'[t].pc = "matchWait"

\* the cells a board has marked as matched
MarkedCells(board) == {i \in DOMAIN board : board[i].isMatched}

\* C1: in every state whose phase is IDLE and whose board is in place (after
\* the generation at level start and after every settled cascade) the match
\* detector finds nothing on the board.
C1_SettlementInvariant ==
  (phase = "IDLE" /\ IsFullGrid(grid)) => Len(detectAllMatches(grid)) = 0

\* C2: every cascade step raises the score by exactly the number of cells it
\* resolves times 10 times the 1-indexed depth of the step in its cascade
\* (30 for a first step that resolves 3 cells).
C2_ScorePerStep ==
  [][\A t \in 1 .. Len(tasks) :
       ScoringStep(t) =>
         score' = score + Cardinality(MarkedCells(tasks'[t].board)) * 10
                            * (tasks[t].cascadeCount + 1)]_vars

\* the step of the call t that finds no match after the swap and reverts it
RevertStep(t) ==
  /\ t <= Len(tasks')
  /\ tasks[t].pc = "swapWait"
  /\ tasks'[t].pc = "revertWait"

\* the step of the call t that ends a reverted swap
RevertEnd(t) ==
  /\ tasks[t].pc = "revertWait"
  /\ Len(tasks') < Len(tasks)

\* the step of the call t that accepts the swap as match-producing
AcceptStep(t) ==
  /\ t <= Len(tasks')
  /\ tasks[t].pc = "swapWait"
  /\ tasks'[t].pc = "matching"

\* a step of the cascade of the call t, after the swap has been accepted
CascadeStep(t) ==
  /\ tasks[t].pc \in {"matching", "matchWait", "fallWait", "refillWait"}
  /\ \/ Len(tasks') < Len(tasks)
     \/ tasks'[t].pc # tasks[t].pc

\* C3: a swap that produces no match puts the board back cell for cell as it
\* was before the swap (id, colour, index and flags at every position),
\* leaves moves, score and levelState unchanged and ends in phase IDLE.
C3_SwapReversibility ==
  [][\A t \in 1 .. Len(tasks) :
       /\ RevertStep(t) =>
            /\ grid' = tasks[t].grid
            /\ moves' = moves /\ score' = score /\ levelState' = levelState
       /\ RevertEnd(t) =>
            /\ phase' = "IDLE"
            /\ grid' = grid
            /\ moves' = moves /\ score' = score /\ levelState' = levelState]_vars

\* C4: an accepted swap that produces a match reduces moves by exactly 1, and
\* the steps of the cascade that follow, a swap without a match and a
\* rejected input leave moves unchanged.
C4_MoveConsumption ==
  [][/\ \A t \in 1 .. Len(tasks) :
          /\ AcceptStep(t) => moves' = moves - 1
          /\ (RevertStep(t) \/ RevertEnd(t)) => moves' = moves
          /\ CascadeStep(t) => moves' = moves
     /\ (HandleElementTap \/ HandleSwipe) => moves' = moves]_vars

\* C5: when the swap that takes the last move starts a cascade that fills
\* the progress, the level is won: a settled game with no move left and
\* full progress is never LOST.
C5_WinPrecedesLoss ==
  (tasks = << >> /\ phase = "IDLE" /\ moves = 0 /\ ProgressFull(teamProgress))
    => levelState # "LOST"

\* C6: when the move deduction brings moves to 0 with progress below 1 the
\* levelState becomes LOST; while it is LOST taps and swipes change
\* nothing, and it stays LOST until addMoves (or a reset) is called.
C6_Loss ==
  [][/\ \A t \in 1 .. Len(tasks) :
          (AcceptStep(t) /\ moves' = 0 /\ ~ProgressFull(teamProgress))
            => levelState' = "LOST"
     /\ (levelState = "LOST" /\ (HandleElementTap \/ HandleSwipe)) => UNCHANGED vars
     /\ (levelState = "LOST" /\ levelState' # "LOST")
          => (moves' = moves + ReviveMoves \/ resetCount' # resetCount)]_vars

\* the last move was used without filling the progress; the cascade is over
C6_Witness ==
  /\ levelState = "LOST"
  /\ moves = 0
  /\ ~ProgressFull(teamProgress)
  /\ phase = "IDLE"
  /\ tasks = << >>

\* C7: while phase is not IDLE or levelState is not PLAYING, handleElementTap
\* and handleSwipe change nothing (grid, selectedIndex, phase, score, combo,
\* teamProgress, moves, levelState).
C7_InputGating ==
  [][((phase # "IDLE" \/ levelState # "PLAYING") /\ (HandleElementTap \/ HandleSwipe))
       => UNCHANGED vars]_vars

\* a cell is selected, then a cascade runs: the phase is not IDLE and the
\* selection a tap would change is in place
C7_Witness ==
  /\ phase \in {"SWAPPING", "MATCHING", "FALLING", "REFILLING"}
  /\ levelState = "PLAYING"
  /\ Len(tasks) = 1

\* C8: at most one performSwap call is in flight; a tap or swipe that
\* arrives while one is in flight starts no second one, and the end of a
\* call starts none either (nothing is queued).
C8_OneInFlight ==
  [][/\ Len(tasks') <= 1
     /\ (isProcessingRef /\ (HandleElementTap \/ HandleSwipe))
          => UNCHANGED <<grid, phase, score, combo, teamProgress, moves, levelState, tasks,
                         swapCount, isProcessingRef>>
     /\ Len(tasks') < Len(tasks) => swapCount' = swapCount]_vars

\* a call is in flight while the store's phase is IDLE again (after a reset),
\* so that only isProcessingRef keeps a tap from starting a second call
C8_Witness ==
  /\ Len(tasks) = 1
  /\ isProcessingRef
  /\ phase = "IDLE"
  /\ levelState = "PLAYING"
  /\ selectedIndex # 0 - 1

\* the edges of the phase machine
PhaseEdges ==
  { <<"IDLE", "SWAPPING">>, <<"SWAPPING", "IDLE">>, <<"SWAPPING", "MATCHING">>,
    <<"MATCHING", "FALLING">>, <<"MATCHING", "IDLE">>, <<"FALLING", "REFILLING">>,
    <<"REFILLING", "MATCHING">> }

\* C9: the phase starts as IDLE and changes only along IDLE -> SWAPPING,
\* SWAPPING -> IDLE, SWAPPING -> MATCHING, MATCHING -> FALLING,
\* MATCHING -> IDLE, FALLING -> REFILLING and REFILLING -> MATCHING; FALLING
\* and REFILLING are never entered from IDLE.
C9_PhaseOrdering ==
  [][phase' # phase => <<phase, phase'>> \in PhaseEdges]_vars

SettleStep(t) ==
  /\ tasks[t].pc = "matching"
  /\ Len(tasks') < Len(tasks)

\* the step of the call t that closes a round
RoundEnd(t) ==
  /\ t <= Len(tasks')
  /\ tasks[t].pc = "refillWait"
  /\ tasks'[t].pc = "matching"

HasRun(board) ==
  \E i \in DOMAIN board :
    \/ /\ i % GRID_SIZE <= GRID_SIZE - MIN_MATCH
       /\ board[i + 1].color = board[i].color
       /\ board[i + 2].color = board[i].color
    \/ /\ i \div GRID_SIZE <= GRID_SIZE - MIN_MATCH
       /\ board[i + GRID_SIZE].color = board[i].color
       /\ board[i + 2 * GRID_SIZE].color = board[i].color

\* the board in the store is the one the generator returned: no swap has
\* been started on it
FreshBoard == swapCount = 0 /\ tasks = << >> /\ IsFullGrid(grid)

\* C11: the board returned by the generator, for every level layout, has no
\* row and no column with 3 or more consecutive cells of one colour.
C11_GeneratorInvariant == FreshBoard => ~HasRun(grid)

\* the cells of the running level that its layout marks as rocks
RockCells == currentLevelConfig.rocks

\* C12: the cell at a rock position of the level is never moved and never
\* part of a match group: as long as the board is not generated anew, the
\* element at a rock position stays the same element and is never marked
\* as matched.
C12_Obstacles ==
  [][\A i \in RockCells :
       (resetCount' = resetCount /\ IsFullGrid(grid) /\ IsFullGrid(grid'))
         => /\ grid'[i].id = grid[i].id
            /\ ~grid'[i].isMatched]_vars

\* C13: every cascade step raises combo by exactly 1, and when the cascade
\* of a swap has settled (in a game without a reset) combo is the number of
\* steps of that cascade, whatever the swaps before it did.
C13_ComboCounting ==
  [][\A t \in 1 .. Len(tasks) :
       /\ ScoringStep(t) => combo' = combo + 1
       /\ (SettleStep(t) /\ resetCount = 0) => combo' = tasks[t].cascadeCount]_vars

\* p is a fraction in [0, 1]
InUnitRange(p) == 0 <= p.num /\ p.num <= p.den /\ p.den > 0

\* C14: teamProgress lies in [0, 1]; within a level (no reset) it never
\* decreases, and while levelState is WON no tap, swipe or cascade step
\* changes it.
C14_ProgressMonotone ==
  [][/\ InUnitRange(teamProgress) /\ InUnitRange(teamProgress')
     /\ resetCount' = resetCount
          => teamProgress'.num * teamProgress.den >= teamProgress.num * teamProgress'.den
     /\ (levelState = "WON" /\ resetCount' = resetCount)
          => teamProgress' = teamProgress]_vars

\* the first round of a cascade has won the level with a move to spare, and
\* the cascade has gone on to score a further round
C14_Witness ==
  /\ levelState = "WON"
  /\ moves = 1
  /\ score > currentLevelConfig.targetProgress
  /\ \E t \in 1 .. Len(tasks) : tasks[t].cascadeCount >= 1 /\ tasks[t].pc = "matchWait"

\* C15: after every contribution update of a level that is not won,
\* teamProgress is min(score / targetProgress, 1) for the store's score and
\* the current level's target; it is 1 exactly when score >= targetProgress.
C15_ProgressFormula ==
  [][\A t \in 1 .. Len(tasks) :
       (ScoringStep(t) /\ levelState # "WON") =>
         /\ teamProgress'.num * currentLevelConfig.targetProgress
              = Min(score', currentLevelConfig.targetProgress) * teamProgress'.den
         /\ ProgressFull(teamProgress') <=> score' >= currentLevelConfig.targetProgress]_vars

\* a contribution update has left the progress strictly between 0 and 1
C15_Witness ==
  /\ levelState = "PLAYING"
  /\ teamProgress.num > 0
  /\ ~ProgressFull(teamProgress)
  /\ teamProgress.num = score
  /\ \E t \in 1 .. Len(tasks) : tasks[t].pc = "matchWait"

\* C16: WON means teamProgress >= 1, and LOST means moves = 0 and
\* teamProgress < 1.
C16_OutcomeMeaning ==
  /\ levelState = "WON" => ProgressFull(teamProgress)
  /\ levelState = "LOST" => (moves = 0 /\ ~ProgressFull(teamProgress))

\* C17: addMoves(count) raises moves by exactly count and turns LOST back
\* into PLAYING; grid, score, teamProgress, combo and phase are unchanged.
\* Apart from a reset, it is the only step that changes moves or levelState
\* while the level is LOST.
C17_AddMoves ==
  [][(levelState = "LOST" /\ resetCount' = resetCount
        /\ (moves' # moves \/ levelState' # levelState))
       => /\ moves' = moves + ReviveMoves
          /\ levelState' = "PLAYING"
          /\ UNCHANGED <<grid, score, teamProgress, combo, phase>>]_vars

\* the player has revived a lost level: the moves of the revive are there
\* and taps are accepted again
C17_Witness ==
  /\ moves = ReviveMoves
  /\ levelState = "PLAYING"
  /\ phase = "IDLE"
  /\ resetCount = 0
  /\ score > 0

\* C18: after the level is restarted or the next level is started, the board
\* is a full board of newly generated elements, score and teamProgress are
\* 0, moves is the level's moves, levelState is PLAYING, combo is 0, no cell
\* is selected and the phase is IDLE.
C18_LevelStart ==
  [][(RestartLevel \/ NextLevel) =>
       /\ IsFullGrid(grid')
       /\ \A i \in DOMAIN grid' : grid'[i].id >= nextId
       /\ score' = 0
       /\ teamProgress'.num = 0
       /\ moves' = getLevelById(currentLevel').moves
       /\ levelState' = "PLAYING"
       /\ combo' = 0
       /\ selectedIndex' = 0 - 1
       /\ phase' = "IDLE"]_vars

\* C19: whenever the phase is IDLE and input is accepted (levelState is
\* PLAYING), the board has exactly TOTAL_CELLS cells, one at every position.
C19_BoardSize ==
  (phase = "IDLE" /\ levelState = "PLAYING")
    => (IsFullGrid(grid) /\ \A i \in Indices : grid[i].index = i)

\* what a tap on the valid cell i does in phase IDLE with levelState PLAYING
TapEffect(i) ==
  IF selectedIndex = 0 - 1
  THEN selectedIndex' = i /\ UNCHANGED <<grid, score, moves, phase>>
  ELSE IF selectedIndex = i
       THEN selectedIndex' = 0 - 1 /\ UNCHANGED <<grid, score, moves, phase>>
       ELSE IF areAdjacent(selectedIndex, i)
            THEN /\ selectedIndex' = 0 - 1
                 /\ phase' = "SWAPPING"
                 /\ grid'[i].id = CellAt(grid, selectedIndex).id
                 /\ grid'[selectedIndex].id = CellAt(grid, i).id
                 /\ grid'[i].index = i
                 /\ grid'[selectedIndex].index = selectedIndex
            ELSE selectedIndex' = i /\ UNCHANGED <<grid, score, moves, phase>>

\* a tap on the valid cell i is due to have an effect: the board shows the
\* cell, the tap is accepted, and if it asks for a swap the model still
\* follows swaps
TapDue(i) ==
  /\ IsFullGrid(grid)
  /\ phase = "IDLE"
  /\ levelState = "PLAYING"
  /\ isValidIndex(i)
  /\ Quiescent
  /\ (selectedIndex # 0 - 1 /\ areAdjacent(selectedIndex, i)) => swapCount < MaxSwaps

\* C20: in phase IDLE with levelState PLAYING, a tap on a valid cell i
\* selects i if nothing is selected, clears the selection if i is selected,
\* starts the swap of the two cells and clears the selection if i is adjacent
\* to the selected cell, and selects i otherwise; outside the swap case
\* grid, score, moves and phase are unchanged.
C20_TapSelection ==
  /\ [](\A i \in InputIndices : TapDue(i) => ENABLED (handleElementTap(i) /\ Rerender /\ TapEffect(i)))
  /\ [][\A i \in InputIndices : (TapDue(i) /\ handleElementTap(i)) => TapEffect(i)]_vars

\* the cell one step from the cell from in the direction, or -1 at the edge
SwipeNeighbour(from, direction) ==
  IF direction = "up" THEN (IF from >= GRID_SIZE THEN from - GRID_SIZE ELSE 0 - 1)
  ELSE IF direction = "down" THEN (IF from < TOTAL_CELLS - GRID_SIZE THEN from + GRID_SIZE ELSE 0 - 1)
  ELSE IF direction = "left" THEN (IF from % GRID_SIZE # 0 THEN from - 1 ELSE 0 - 1)
  ELSE (IF from % GRID_SIZE # GRID_SIZE - 1 THEN from + 1 ELSE 0 - 1)

\* a swipe from the valid cell from is accepted
SwipeDue(from) ==
  /\ IsFullGrid(grid)
  /\ phase = "IDLE"
  /\ levelState = "PLAYING"
  /\ isValidIndex(from)
  /\ Quiescent

\* C21: in phase IDLE with levelState PLAYING, a swipe from a valid cell in a
\* direction leaves the state unchanged if the cell is on the board edge in
\* that direction; otherwise, whatever the selection is, the swap it starts
\* is the swap of the board's cell at from with the neighbour one step in
\* the direction: the board is the board before the swipe with these two
\* cells exchanged, the selection is cleared and the phase is SWAPPING.
C21_Swipe ==
  [][\A from \in InputIndices, direction \in Directions :
       (SwipeDue(from) /\ handleSwipe(from, direction) /\ Rerender)
         => IF SwipeNeighbour(from, direction) = 0 - 1
            THEN UNCHANGED vars
            ELSE /\ phase' = "SWAPPING"
                 /\ selectedIndex' = 0 - 1
                 /\ grid' = SwapCells(grid, from, SwipeNeighbour(from, direction))]_vars

\* the indices next to the board on either side
InvalidIndices == {0 - 1, TOTAL_CELLS}

\* C22: in every state, a tap or a swipe with an index outside
\* 0 .. TOTAL_CELLS - 1 returns normally and leaves every variable as it is.
C22_InvalidInput ==
  \A i \in InvalidIndices :
    /\ ENABLED (handleElementTap(i) /\ Rerender)
    /\ ~ENABLED (handleElementTap(i) /\ Rerender /\ ~UNCHANGED vars)
    /\ \A direction \in Directions :
         /\ ENABLED (handleSwipe(i, direction) /\ Rerender)
         /\ ~ENABLED (handleSwipe(i, direction) /\ Rerender /\ ~UNCHANGED vars)

\* input is accepted and a cell is selected: a tap that is not rejected
\* selects a cell, clears the selection or starts a swap
C22_Witness ==
  /\ phase = "IDLE"
  /\ levelState = "PLAYING"
  /\ IsFullGrid(grid)
  /\ selectedIndex = 3
  /\ ~isProcessingRef
  /\ swapCount < MaxSwaps

\* C29: every cascade step adds exactly one particle to the store's list,
\* whose contributionAmount is the score gained in that step and whose
\* sourceIndex is one of the cells matched in that step; no other step, in
\* particular no swap without a match, adds a particle.
C29_MatchEvents ==
  [][/\ \A t \in 1 .. Len(tasks) :
          ScoringStep(t) =>
            /\ Len(contributionParticles') = Len(contributionParticles) + 1
            /\ SubSeq(contributionParticles', 1, Len(contributionParticles))
                 = contributionParticles
            /\ contributionParticles'[Len(contributionParticles')].contributionAmount
                 = score' - score
            /\ contributionParticles'[Len(contributionParticles')].sourceIndex
                 \in MarkedCells(tasks'[t].board)
     /\ (~\E t \in 1 .. Len(tasks) : ScoringStep(t))
          => Len(contributionParticles') <= Len(contributionParticles)]_vars

\* a step of the call t, at any of its waits or in its loop
TaskStep(t) ==
  \/ SwapResolved(t)
  \/ RevertDone(t)
  \/ Matching(t)
  \/ Falling(t)
  \/ Refilling(t)
  \/ CascadeLoop(t)

\* C30: once resetGame, restartLevel or nextLevel has been applied while a
\* performSwap call is in flight, no later step of that call changes score,
\* teamProgress, combo, the board, the phase or levelState, as long as no
\* new swap has been accepted.
C30_ResetNoRace ==
  [][\A t \in 1 .. Len(tasks) :
       ((\A u \in 1 .. Len(tasks) : tasks[u].reset) /\ TaskStep(t))
         => UNCHANGED <<score, teamProgress, combo, grid, phase, levelState>>]_vars

\* ------------------------------------------------------------------------
\* Adjacency on the whole board: taps on every cell of the board, no timers.
\* The first tap draws a (the selection), the second tap applies
\* areAdjacent(a, b) to decide between a swap and a new selection.
\* ------------------------------------------------------------------------
TapAnyCell == \E index \in Indices : Quiescent /\ handleElementTap(index) /\ Rerender

AdjacencySpec == Init /\ [][TapAnyCell]_vars

\* a and b are one row step apart in the same column, or one column step
\* apart in the same row
OneStepApart(a, b) ==
  \/ a = b + GRID_SIZE
  \/ b = a + GRID_SIZE
  \/ (a = b + 1 /\ a % GRID_SIZE # 0)
  \/ (b = a + 1 /\ b % GRID_SIZE # 0)

\* b is a diagonal neighbour of a
Diagonal(a, b) ==
  /\ Abs((a \div GRID_SIZE) - (b \div GRID_SIZE)) = 1
  /\ Abs((a % GRID_SIZE) - (b % GRID_SIZE)) = 1

\* C23: for the selected cell a and every cell b of the board, areAdjacent(a, b)
\* holds iff a and b are one row step apart in the same column or one column
\* step apart in the same row; it is symmetric, false for b = a, false for
\* diagonal neighbours, and false between the last cell of a row and the
\* first cell of the next row.  A tap on b with a selected starts the swap
\* exactly if a and b are one step apart.
C23_Adjacency ==
  /\ [](selectedIndex \in Indices =>
          /\ ~areAdjacent(selectedIndex, selectedIndex)
          /\ \A b \in Indices :
               /\ areAdjacent(selectedIndex, b) <=> OneStepApart(selectedIndex, b)
               /\ areAdjacent(selectedIndex, b) <=> areAdjacent(b, selectedIndex)
               /\ Diagonal(selectedIndex, b) => ~areAdjacent(selectedIndex, b)
               /\ (selectedIndex % GRID_SIZE = GRID_SIZE - 1 /\ b = selectedIndex + 1)
                    => (~areAdjacent(selectedIndex, b) /\ ~areAdjacent(b, selectedIndex)))
  /\ [][\A b \in Indices :
          (TapDue(b) /\ selectedIndex \in Indices /\ selectedIndex # b /\ handleElementTap(b))
            => (phase' = "SWAPPING" <=> OneStepApart(selectedIndex, b))]_vars

\* the last cell of the first row has been selected and a tap on the cell
\* below it has started the swap
C23_Witness ==
  /\ Len(tasks) = 1
  /\ tasks[1].fromIndex = GRID_SIZE - 1
  /\ tasks[1].toIndex = 2 * GRID_SIZE - 1
  /\ phase = "SWAPPING"

\* ------------------------------------------------------------------------
\* Detection and gravity on drawn boards.  The colours of a board are random
\* draws (getRandomColor): a drawn board is a generated board on which the
\* cells of some of the pieces below have drawn the piece's colour.  One
\* round of processCascade is applied to it: detection and marking, then
\* gravity.
\* ------------------------------------------------------------------------
\* row 3 (24, 27 next to 25, 26) with its end 30, 31 before the first cell
\* of row 4; row 4 (33, 34, 35) and column 3 below it (43); row 5 (41, 42) in
\* a second colour; the end of the last row (61 .. 63) and of the last
\* column (47, 55)
PaintPieces ==
  << [cells |-> {24},      color |-> "water"],
     [cells |-> {27},      color |-> "water"],
     [cells |-> {33},      color |-> "water"],
     [cells |-> {34},      color |-> "water"],
     [cells |-> {35},      color |-> "water"],
     [cells |-> {43},      color |-> "water"],
     [cells |-> {41},      color |-> "sun"],
     [cells |-> {42},      color |-> "sun"],
     [cells |-> {30, 31},  color |-> "water"],
     [cells |-> {61, 62},  color |-> "water"],
     [cells |-> {63},      color |-> "water"],
     [cells |-> {47, 55},  color |-> "water"] >>

\* the board on which the cells of the chosen pieces have drawn their colour
Paint(board, chosen) ==
  Array([i \in DOMAIN board |->
           IF \E p \in chosen : i \in PaintPieces[p].cells
           THEN [board[i] EXCEPT !.color =
                   PaintPieces[CHOOSE p \in chosen : i \in PaintPieces[p].cells].color]
           ELSE board[i]])

BoardInit ==
  \E chosen \in SUBSET (1 .. Len(PaintPieces)), seed \in 0 .. MaxGenSeed :
    /\ grid = Paint(generateInitialGrid(getFirstLevel, 1, seed), chosen)
    /\ phase = "MATCHING"
    /\ selectedIndex = 0 - 1
    /\ score = 0
    /\ combo = 0
    /\ highScore = 0
    /\ teamProgress = ZeroProgress
    /\ isLevelComplete = FALSE
    /\ moves = getFirstLevel.moves
    /\ maxMoves = getFirstLevel.moves
    /\ levelState = "PLAYING"
    /\ currentLevel = getFirstLevel.id
    /\ isMuted = FALSE
    /\ isProcessingRef = TRUE
    /\ swipeGrid = EmptyGrid
    /\ tasks = << >>
    /\ nextId = 1 + TOTAL_CELLS
    /\ swapCount = 0
    /\ resetCount = 0
    /\ contributionParticles = << >>

\* detectAllMatches and the marking of the matched cells
DetectStep ==
  LET matches == detectAllMatches(grid)
      matchedIndices == SeqToSet(FlatMatched(matches, 1, << >>))
  IN  /\ phase = "MATCHING"
      /\ IF Len(matches) = 0
         THEN phase' = "IDLE" /\ grid' = grid
         ELSE phase' = "FALLING" /\ grid' = MarkMatched(grid, matchedIndices)
      /\ UNCHANGED <<contributionParticles, selectedIndex, score, combo, highScore, teamProgress, isLevelComplete,
                     moves, maxMoves, levelState, currentLevel, isMuted, isProcessingRef,
                     swipeGrid, tasks, nextId, swapCount, resetCount>>

\* applyGravity on the marked board
FallStep ==
  /\ phase = "FALLING"
  /\ phase' = "REFILLING"
  /\ grid' = applyGravity(grid)
  /\ UNCHANGED <<contributionParticles, selectedIndex, score, combo, highScore, teamProgress, isLevelComplete,
                 moves, maxMoves, levelState, currentLevel, isMuted, isProcessingRef,
                 swipeGrid, tasks, nextId, swapCount, resetCount>>

\* refillEmptyCells on the fallen board; the specification follows one round
\* of the loop and stops at the refilled board
RefillStep ==
  /\ phase = "REFILLING"
  /\ NullCount(grid) > 0
  /\ \E stream \in RefillStreams : grid' = refillEmptyCells(grid, nextId, stream)
  /\ nextId' = nextId + NullCount(grid)
  /\ UNCHANGED <<contributionParticles, phase, selectedIndex, score, combo, highScore, teamProgress,
                 isLevelComplete, moves, maxMoves, levelState, currentLevel, isMuted, isProcessingRef,
                 swipeGrid, tasks, swapCount, resetCount>>

BoardNext == DetectStep \/ FallStep \/ RefillStep

BoardSpec == BoardInit /\ [][BoardNext]_vars

\* start, start + step, ... are MIN_MATCH cells of one row (step 1) or of
\* one column (step GRID_SIZE), all of one colour
IsRun(board, start, step) ==
  /\ start \in Indices
  /\ IF step = 1
     THEN start % GRID_SIZE <= GRID_SIZE - MIN_MATCH
     ELSE start \div GRID_SIZE <= GRID_SIZE - MIN_MATCH
  /\ \A k \in 0 .. (MIN_MATCH - 1) : board[start + k * step].color = board[start].color

\* the cell i is one of MIN_MATCH consecutive cells of one colour in its row
InRowRun(board, i) == \E d \in 0 .. (MIN_MATCH - 1) : IsRun(board, i - d, 1)

\* the cell i is one of MIN_MATCH consecutive cells of one colour in its column
InColumnRun(board, i) == \E d \in 0 .. (MIN_MATCH - 1) : IsRun(board, i - d * GRID_SIZE, GRID_SIZE)

RawMatched(board) == {i \in Indices : InRowRun(board, i) \/ InColumnRun(board, i)}

\* the cells of the groups the detector returns
GroupCells(board) == SeqToSet(FlatMatched(detectAllMatches(board), 1, << >>))

\* C24: on every full board, the cells reported by the two line scans, and
\* the cells of the groups the detector returns, are exactly the cells that
\* lie in a row or in a column in a run of at least MIN_MATCH consecutive
\* cells of one colour; the detector returns no group iff there is no such
\* cell.
C24_LineScan ==
  phase = "MATCHING" =>
    /\ SeqToSet(findHorizontalMatches(grid)) \cup SeqToSet(findVerticalMatches(grid))
         = RawMatched(grid)
    /\ GroupCells(grid) = RawMatched(grid)
    /\ (Len(detectAllMatches(grid)) = 0) <=> (RawMatched(grid) = {})

\* detection has marked a run that ends at the end of its row, and the last
\* two cells of row 3 and the first cell of row 4 are of one colour and not
\* marked
C24_Witness ==
  /\ phase = "FALLING"
  /\ \A i \in {61, 62, 63} : grid[i].isMatched
  /\ grid[30].color = grid[32].color /\ grid[31].color = grid[32].color
  /\ ~grid[30].isMatched /\ ~grid[31].isMatched /\ ~grid[32].isMatched

\* the cells i and j are two of MIN_MATCH consecutive cells of one colour in
\* a row or in a column
RunMates(board, i, j) ==
  \E step \in {1, GRID_SIZE}, d \in 0 .. (MIN_MATCH - 1) :
    /\ IsRun(board, i - d * step, step)
    /\ \E k \in 0 .. (MIN_MATCH - 1) : j = i - d * step + k * step

\* the cells of the k-th group the detector returns
Group(board, k) == SeqToSet(detectAllMatches(board)[k].matchedIndices)

GroupCount(board) == Len(detectAllMatches(board))

\* C25: on every full board the groups the detector returns are pairwise
\* disjoint, list no cell twice, cover exactly the cells that lie in a run,
\* have at least MIN_MATCH cells each, all of one colour, and any two cells
\* of one run are in the same group, so that the cells of a row run and of
\* a column run that share a cell are all in one group.
C25_GroupsPartition ==
  phase = "MATCHING" =>
    LET matches == detectAllMatches(grid)
        cells(k) == SeqToSet(matches[k].matchedIndices)
    IN  /\ \A j, k \in 1 .. Len(matches) : j # k => cells(j) \cap cells(k) = {}
        /\ UNION {cells(k) : k \in 1 .. Len(matches)} = RawMatched(grid)
        /\ \A k \in 1 .. Len(matches) :
             /\ Cardinality(cells(k)) = Len(matches[k].matchedIndices)
             /\ matches[k].count = Cardinality(cells(k))
             /\ Cardinality(cells(k)) >= MIN_MATCH
             /\ \A a, b \in cells(k) : grid[a].color = grid[b].color
        /\ \A i, j \in RawMatched(grid) :
             RunMates(grid, i, j) => \E k \in 1 .. Len(matches) : {i, j} \subseteq cells(k)

\* detection has marked the row run 24 .. 27 and the column run 27, 35, 43,
\* 51 that shares the cell 27 with it, and the run 61 .. 63 apart from them
C25_Witness ==
  /\ phase = "FALLING"
  /\ \A i \in {24, 25, 26, 27, 35, 43, 51} : grid[i].isMatched
  /\ \A i \in {61, 62, 63} : grid[i].isMatched
  /\ ~grid[34].isMatched

\* the cells linked to the cell i by a path of 4-adjacent cells that all lie
\* in a run and have the colour of i: the component, grown from reach
RECURSIVE Component(_, _, _)
Component(board, raw, reach) ==
  LET more == {j \in raw \ reach :
                 \E r \in reach : areAdjacent(r, j) /\ board[j].color = board[r].color}
  IN  IF more = {} THEN reach ELSE Component(board, raw, reach \cup more)

\* C26: on every full board, each group the detector returns is exactly one
\* connected component of the cells that lie in a run: the cells of the
\* group of a cell i are the cells linked to i by a path of 4-adjacent cells
\* that all lie in a run and have the colour of i.
C26_GroupIsComponent ==
  phase = "MATCHING" =>
    \A k \in 1 .. GroupCount(grid) :
      \A i \in Group(grid, k) :
        Group(grid, k) = Component(grid, RawMatched(grid), {i})

\* the positions of a column, top to bottom
ColumnCells(col) == [r \in 1 .. GRID_SIZE |-> (r - 1) * GRID_SIZE + col]

\* the cells of a column that are not marked, top to bottom
Survivors(board, col) ==
  SelectSeq([r \in 1 .. GRID_SIZE |-> board[ColumnCells(col)[r]]], LAMBDA e : ~e.isMatched)

\* C27: the Falling step on a board with matched flags leaves, in every
\* column, as many empty slots at the top as the column had matched cells,
\* and below them the column's unmatched cells in their order from top to
\* bottom, each the same element with its index set to its new position; so
\* no cell changes its column and no matched cell is left.
C27_Gravity ==
  [][phase = "FALLING" =>
       \A col \in 0 .. (GRID_SIZE - 1) :
         LET kept  == Survivors(grid, col)
             empty == GRID_SIZE - Len(kept)
         IN  \A r \in 1 .. GRID_SIZE :
               grid'[ColumnCells(col)[r]] =
                 IF r <= empty
                 THEN NullCell
                 ELSE [kept[r - empty] EXCEPT !.index = ColumnCells(col)[r]]]_vars

\* gravity has acted on column 0 with matched cells in rows 3 and 5: two
\* empty slots at the top, the cells of rows 0 and 4 two rows and one row
\* further down
C27_Witness ==
  /\ phase = "REFILLING"
  /\ grid[0] = NullCell /\ grid[8] = NullCell
  /\ grid[16].id = 1 /\ grid[16].index = 16
  /\ grid[40].id = 33 /\ grid[40].index = 40

\* a step that starts a level: resetGame, restartLevel, nextLevel,
\* clearAllData
LevelStartStep == resetCount' # resetCount

\* C31: once levelState is WON it stays WON under taps, swipes, the steps of
\* running calls and addMoves: only a step that starts a level changes it,
\* and addMoves called while the level is WON leaves it WON.
C31_WonTerminal ==
  /\ [][(levelState = "WON" /\ levelState' # "WON") => LevelStartStep]_vars
  /\ [](levelState = "WON" =>
          ~ENABLED (addMoves(ReviveMoves) /\ Rerender /\ levelState' # "WON"))

\* C32: in every state with phase IDLE and levelState PLAYING, the state
\* restored from persisted data included, a move is left: moves > 0.
C32_PlayableHasMove ==
  (phase = "IDLE" /\ levelState = "PLAYING") => moves > 0

\* the cells of the groups detectAllMatches reports on a board
ReportedCells(board) == SeqToSet(FlatMatched(detectAllMatches(board), 1, << >>))

\* C33: the step of a cascade that finds matches publishes a board on which
\* exactly the cells of the reported groups have isMatched true, and in
\* every state whose phase is IDLE no cell of the board has isMatched true.
C33_MatchedTransient ==
  /\ [][\A t \in 1 .. Len(tasks) :
          ScoringStep(t) => MarkedCells(grid') = ReportedCells(tasks[t].board)]_vars
  /\ [](phase = "IDLE" => MarkedCells(grid) = {})

\* a cascade step has marked cells, among them cell 2 of the first row
C33_Witness ==
  /\ phase = "MATCHING"
  /\ IsFullGrid(grid)
  /\ 2 \in MarkedCells(grid)
  /\ \E t \in 1 .. Len(tasks) : tasks[t].pc = "matchWait" /\ MarkedCells(tasks[t].board) = MarkedCells(grid)

\* the board published by a step differs from the board before it at most
\* at the positions a and b
OnlySwapped(a, b) ==
  /\ DOMAIN grid' = DOMAIN grid
  /\ \A i \in DOMAIN grid \ {a, b} : grid'[i] = grid[i]

\* C34: on every published board the cell at position i has index i, and
\* the board a swap or a reverted swap publishes differs from the board
\* before it only at the two swapped positions.
C34_IndexConsistency ==
  /\ [](\A i \in DOMAIN grid : grid[i].index = i)
  /\ [][swapCount' # swapCount =>
          OnlySwapped(tasks'[Len(tasks')].fromIndex, tasks'[Len(tasks')].toIndex)]_vars
  /\ [][\A t \in 1 .. Len(tasks) :
          (t <= Len(tasks') /\ tasks[t].pc = "swapWait" /\ tasks'[t].pc = "revertWait")
            => OnlySwapped(tasks[t].fromIndex, tasks[t].toIndex)]_vars

\* C35: selectedIndex is -1 or the index of a cell, and it is -1 in every
\* state whose phase is not IDLE.
C35_Selection ==
  /\ selectedIndex \in {0 - 1} \cup Indices
  /\ (phase # "IDLE" => selectedIndex = 0 - 1)

\* the position of the current level in the catalogue
LevelPosition == CHOOSE k \in 1 .. Len(LEVELS) : LEVELS[k].id = currentLevel

C37_HighScore ==
  /\ [](highScore >= score)
  /\ [][highScore' < highScore => (ClearAllData /\ highScore' = 0)]_vars

\* a cascade step has raised the score above the restored high score
C37_Witness ==
  /\ score > 2960
  /\ highScore = score
  /\ combo > 0

\* the ids of the cells on a board
CellIds(board) == {board[j].id : j \in {k \in DOMAIN board : board[k] # NullCell}}

\* C38: the refill of a fallen board leaves no empty slot: every slot that
\* was empty holds a new cell (an id no cell of the fallen board has, one of
\* the element colours) with isMatched false and index equal to its position,
\* and every cell that was on the fallen board is unchanged.
C38_Refill ==
  [][(phase = "REFILLING" /\ NullCount(grid) > 0) =>
       /\ NullCount(grid') = 0
       /\ DOMAIN grid' = Indices
       /\ \A i \in Indices :
            IF grid[i] = NullCell
            THEN /\ grid'[i].id \notin CellIds(grid)
                 /\ \A j \in Indices \ {i} : grid'[j].id # grid'[i].id
                 /\ grid'[i].color \in SeqToSet(ALL_ELEMENT_TYPES)
                 /\ grid'[i].isMatched = FALSE
                 /\ grid'[i].index = i
            ELSE grid'[i] = grid[i]]_vars

\* a refill has filled the two slots gravity emptied at the top of column 0
\* and left the cell that fell to row 2 in place
C38_Witness ==
  /\ phase = "REFILLING"
  /\ NullCount(grid) = 0
  /\ grid[0].id > TOTAL_CELLS /\ grid[8].id > TOTAL_CELLS
  /\ grid[16].id = 1 /\ grid[16].index = 16

====
